---------------------------- MODULE Spec2Model ----------------------------
(***************************************************************************)
(* Model of planet.py: the Planet class (constructor, attraction,          *)
(* update_position) and the driver loop of main().  Rendering (draw,       *)
(* pygame window, colours, radius) changes no simulation state and is      *)
(* left out.                                                               *)
(*                                                                         *)
(* Numbers.  Python floats are modelled as decimal fixed-point numbers     *)
(* with three fractional digits: the integer n stands for n / ONE.  Every  *)
(* arithmetic operation rounds its exact result to the nearest             *)
(* representable value, as the IEEE operation does, and the math-library   *)
(* functions sqrt, atan2, cos and sin are modelled one by one, each        *)
(* returning the representable value nearest to the true result (computed *)
(* with a finer internal scale HI).  Units are chosen so that the          *)
(* quantities of a small system fit: G and TIMESTEP are the program's      *)
(* constants expressed in those units.                                     *)
(*                                                                         *)
(* Style.  TLC re-evaluates a LET definition at every use but evaluates an *)
(* operator's argument once, so a value the code keeps in a local variable *)
(* is passed on as the argument of a helper operator named after the step  *)
(* of the code it continues.                                               *)
(***************************************************************************)
EXTENDS Integers, Sequences, FiniteSets

\* ------------------------------------------------------------------------
\* Floating-point arithmetic (fixed-point stand-in)
\* ------------------------------------------------------------------------

\* One unit of the fixed-point representation: the value 1.0.
ONE == 1000

Abs(a) == IF a < 0 THEN -a ELSE a

Sign(a) == IF a < 0 THEN -1 ELSE IF a > 0 THEN 1 ELSE 0

\* a / b rounded to the nearest integer, halves away from zero (b > 0).
RoundDiv(a, b) == Sign(a) * ((Abs(a) + (b \div 2)) \div b)

\* float * float
FMul(a, b) == RoundDiv(a * b, ONE)

\* float / float, for b # 0 (Python raises ZeroDivisionError for b = 0; the
\* callers test for it before dividing).
FDiv(a, b) == Sign(b) * RoundDiv(a * ONE, Abs(b))

RECURSIVE ISqrtFrom(_, _)
ISqrtFrom(n, r) == IF (r + 1) * (r + 1) <= n THEN ISqrtFrom(n, r + 1) ELSE r

\* r or r + 1, whichever is the floor of the square root of n.
ISqrtStep(n, r) == IF (r + 1) * (r + 1) <= n THEN r + 1 ELSE r

RECURSIVE ISqrtScaled(_)
\* Floor of the integer square root, by halving the argument's scale.
ISqrtScaled(n) ==
    IF n < 4 THEN ISqrtFrom(n, 0)
    ELSE ISqrtStep(n, 2 * ISqrtScaled(n \div 4))

\* The integer nearest to the square root of n, r being its floor.
SqrtNearest(n, r) == IF n - r * r > r THEN r + 1 ELSE r

\* math.sqrt(a) for a >= 0: the representable value nearest to sqrt(a / ONE).
\* sqrt(a / ONE) * ONE = sqrt(a * ONE); with r its floor, the nearest integer
\* is r + 1 exactly when a * ONE > r * r + r.
Sqrt(a) == SqrtNearest(a * ONE, ISqrtScaled(a * ONE))

\* ------------------------------------------------------------------------
\* math.atan2, math.cos, math.sin
\* ------------------------------------------------------------------------

\* Internal scale of the library functions: the integer n stands for n / HI.
HI == 20000

\* HI \div ONE: one representable step in internal units.
STEP == HI \div ONE

\* pi, pi/2, pi/4 in internal units (pi * HI = 62831.85...).
PI_HI == 62832
HALF_PI_HI == 31416
QUARTER_PI_HI == 15708

\* tan(pi/8) in internal units (0.41421356 * HI).
TAN_PI_8_HI == 8284

\* a * b for internal-scale values of magnitude at most about 1.6.
HMul(a, b) == RoundDiv(a * b, HI)

RECURSIVE SeriesSum(_, _, _, _)
\* term + next terms of a Taylor series: each next term is
\* -term * r2 / (k * (k + 1)), for k = k, k + 2, ... until it rounds to 0.
SeriesSum(term, r2, k, acc) ==
    IF term = 0 THEN acc
    ELSE SeriesSum(-RoundDiv(HMul(term, r2), k * (k + 1)), r2, k + 2, acc + term)

\* cos r and sin r for 0 <= r <= about pi/4, internal scale.
CosTaylor(r) == SeriesSum(HI, HMul(r, r), 1, 0)
SinTaylor(r) == SeriesSum(r, HMul(r, r), 2, 0)

\* cos t for 0 <= t <= pi/2 (internal scale).
CosFirstQuadrant(t) ==
    IF t <= QUARTER_PI_HI THEN CosTaylor(t) ELSE SinTaylor(HALF_PI_HI - t)

\* sin t for 0 <= t <= pi/2 (internal scale).
SinFirstQuadrant(t) ==
    IF t <= QUARTER_PI_HI THEN SinTaylor(t) ELSE CosTaylor(HALF_PI_HI - t)

\* math.cos(angle): angle a float in [-pi, pi] (what atan2 returns).
\* cos t for 0 <= t <= 3 pi / 2 (internal scale).
CosReduced(t) ==
    IF t <= HALF_PI_HI THEN CosFirstQuadrant(t)
    ELSE IF t <= PI_HI THEN -CosFirstQuadrant(PI_HI - t)
    ELSE -CosFirstQuadrant(t - PI_HI)

\* sin t for 0 <= t <= 3 pi / 2 (internal scale).
SinReduced(t) ==
    IF t <= HALF_PI_HI THEN SinFirstQuadrant(t)
    ELSE IF t <= PI_HI THEN SinFirstQuadrant(PI_HI - t)
    ELSE -SinFirstQuadrant(t - PI_HI)

Cos(angle) == RoundDiv(CosReduced(Abs(angle) * STEP), STEP)

\* math.sin(angle): angle a float in [-pi, pi].
Sin(angle) == RoundDiv(Sign(angle) * SinReduced(Abs(angle) * STEP), STEP)

RECURSIVE AtanSeries(_, _, _, _)
\* q - q^3/3 + q^5/5 - ...: pow is the current signed power of q, k its
\* exponent.
AtanSeries(pow, q2, k, acc) ==
    IF pow = 0 THEN acc
    ELSE AtanSeries(-HMul(pow, q2), q2, k + 2, acc + RoundDiv(pow, k))

\* atan q for |q| <= tan(pi/8), internal scale.
AtanSmall(q) == AtanSeries(q, HMul(q, q), 1, 0)

\* atan q for 0 <= q <= 1, internal scale:
\* atan q = pi/4 + atan((q - 1) / (q + 1)) above tan(pi/8).
AtanUnit(q) ==
    IF q <= TAN_PI_8_HI THEN AtanSmall(q)
    ELSE QUARTER_PI_HI + AtanSmall(-RoundDiv((HI - q) * HI, HI + q))

\* The angle of (|dx|, |dy|) in [0, pi/2], internal scale; not both zero.
AtanFirstQuadrant(ax, ay) ==
    IF ay <= ax THEN AtanUnit(RoundDiv(ay * HI, ax))
    ELSE HALF_PI_HI - AtanUnit(RoundDiv(ax * HI, ay))

\* math.atan2(dy, dx): a float in [-pi, pi]; atan2(0, 0) = 0.
Atan2(dy, dx) ==
    IF dx = 0 /\ dy = 0 THEN 0
    ELSE (IF dy < 0 THEN -1 ELSE 1)
         * RoundDiv(IF dx >= 0 THEN AtanFirstQuadrant(Abs(dx), Abs(dy))
                    ELSE PI_HI - AtanFirstQuadrant(Abs(dx), Abs(dy)), STEP)

\* ------------------------------------------------------------------------
\* Bounds of the model and the inputs it enumerates
\* ------------------------------------------------------------------------

\* The largest number of bodies constructed (main() builds nine).
MaxBodies == 3

\* The number of frames of the driver loop explored (main() loops until QUIT).
MaxTicks == 2

\* The coordinates bodies are constructed at: (0, 0), (2, 0) and (1, 2).
Positions == {<<0, 0>>, <<2 * ONE, 0>>, <<ONE, 2 * ONE>>}

\* The masses main() constructs bodies with: positive ones (10.0 and 20.0).
Masses == {10 * ONE, 20 * ONE}

\* The masses the constructor is called with, when every call is considered.
AnyMasses == Masses \cup {0, -10 * ONE}

\* The initial velocities main() assigns to velocity[1] (0.5).
Velocities == {ONE \div 2}

\* ------------------------------------------------------------------------
\* class Planet
\* ------------------------------------------------------------------------

\* Planet.G in model units (0.04).
G == ONE \div 25

\* Planet.TIMESTEP in model units (0.5).
TIMESTEP == ONE \div 2

\* Planet.__init__(x, y, radius, color, mass): the new object's fields.
\* velocity[1], velocity[2] are Python's velocity[0], velocity[1].
Planet(x, y, mass) ==
    [x |-> x, y |-> y, mass |-> mass, velocity |-> <<0, 0>>,
     orbit |-> <<>>, sun |-> FALSE, distance_to_sun |-> 0]

\* Lines 72-74: math.sqrt(dx ** 2 + dy ** 2).
Hypot(dx, dy) == Sqrt(FMul(dx, dx) + FMul(dy, dy))

\* The distance attraction computes between two objects.
Distance(self, other) == Hypot(other.x - self.x, other.y - self.y)

\* Lines 80-83 of attraction: the force along the angle of (dx, dy).
ForceAlong(after, force, angle) ==
    [planets |-> after, raised |-> FALSE,
     fx |-> FMul(force, Cos(angle)), fy |-> FMul(force, Sin(angle))]

\* ForceAt with a floor of 1.0 under a zero distance ** 2 instead of the
\* exception.
ForceAt_Floor(after, gmm, d2, dx, dy) ==
    ForceAlong(after, FDiv(gmm, IF d2 = 0 THEN ONE ELSE d2), Atan2(dy, dx))

\* Line 79 of attraction, d2 being distance ** 2: ZeroDivisionError when it
\* is 0.
ForceAt(after, gmm, d2, dx, dy) ==
    IF d2 = 0
    THEN [planets |-> after, raised |-> TRUE, fx |-> 0, fy |-> 0]
    ELSE ForceAlong(after, FDiv(gmm, d2), Atan2(dy, dx))

\* AttractionAt with line 77 storing distance ** 2.
AttractionAt_StoresSquare(ps, i, j, dx, dy, distance) ==
    ForceAt(IF ps[j].sun
            THEN [ps EXCEPT ![i].distance_to_sun = FMul(distance, distance)]
            ELSE ps,
            FMul(FMul(G, ps[i].mass), ps[j].mass),
            FMul(distance, distance), dx, dy)

\* AttractionAt with the distance also stored in the other object, when
\* self is the primary.
AttractionAt_WritesOther(ps, i, j, dx, dy, distance) ==
    ForceAt(IF ps[j].sun
            THEN [ps EXCEPT ![i].distance_to_sun = distance]
            ELSE IF ps[i].sun
            THEN [ps EXCEPT ![j].distance_to_sun = distance]
            ELSE ps,
            FMul(FMul(G, ps[i].mass), ps[j].mass),
            FMul(distance, distance), dx, dy)

\* AttractionAt without the test of line 76: the distance is stored
\* whatever the other object is.
AttractionAt_AlwaysWrites(ps, i, j, dx, dy, distance) ==
    ForceAt([ps EXCEPT ![i].distance_to_sun = distance],
            FMul(FMul(G, ps[i].mass), ps[j].mass),
            FMul(distance, distance), dx, dy)

\* Lines 76-79 of attraction, the distance known.
AttractionAt(ps, i, j, dx, dy, distance) ==
    ForceAt(IF ps[j].sun
            THEN [ps EXCEPT ![i].distance_to_sun = distance]
            ELSE ps,
            FMul(FMul(G, ps[i].mass), ps[j].mass),
            FMul(distance, distance), dx, dy)

\* Lines 74-79 of attraction, dx and dy known.
AttractionOf(ps, i, j, dx, dy) == AttractionAt(ps, i, j, dx, dy, Hypot(dx, dy))

\* ps[i].attraction(ps[j]) on the list of objects ps: the objects after the
\* call, whether it raised ZeroDivisionError, and the force it returned
\* otherwise.
attraction(ps, i, j) ==
    AttractionOf(ps, i, j, ps[j].x - ps[i].x, ps[j].y - ps[i].y)

RECURSIVE SumForces(_, _, _, _, _, _)
\* Lines 93-94 and the rest of the loop: r is what attraction returned.
AddForce(r, i, j, total_fx, total_fy, n) ==
    IF r.raised
    THEN [planets |-> r.planets, raised |-> TRUE,
          total_fx |-> total_fx, total_fy |-> total_fy, calls |-> n + 1]
    ELSE SumForces(r.planets, i, j + 1, total_fx + r.fx, total_fy + r.fy, n + 1)

\* SumForces without the test of lines 88-89: the object itself is not
\* skipped.
SumForces_NoSkip(ps, i, j, total_fx, total_fy, n) ==
    IF j > Len(ps)
    THEN [planets |-> ps, raised |-> FALSE,
          total_fx |-> total_fx, total_fy |-> total_fy, calls |-> n]
    ELSE AddForce(attraction(ps, i, j), i, j, total_fx, total_fy, n)

\* The loop of lines 87-94 of ps[i].update_position(ps), from list index j
\* on, with the totals so far and the number n of attraction calls made: it
\* skips the object itself and stops where attraction raises.
SumForces(ps, i, j, total_fx, total_fy, n) ==
    IF j > Len(ps)
    THEN [planets |-> ps, raised |-> FALSE,
          total_fx |-> total_fx, total_fy |-> total_fy, calls |-> n]
    ELSE IF j = i
    THEN SumForces(ps, i, j + 1, total_fx, total_fy, n)
    ELSE AddForce(attraction(ps, i, j), i, j, total_fx, total_fy, n)

\* Move with the orbit holding the latest position only.
Move_Overwrite(s, i, vx, vy, x, y) ==
    [s EXCEPT !.planets[i].velocity = <<vx, vy>>,
              !.planets[i].x = x,
              !.planets[i].y = y,
              !.planets[i].orbit = <<<<x, y>>>>]

\* Lines 105-109 of update_position: the position advances by the velocity
\* just updated and is appended to the orbit.
Move(s, i, vx, vy, x, y) ==
    [s EXCEPT !.planets[i].velocity = <<vx, vy>>,
              !.planets[i].x = x,
              !.planets[i].y = y,
              !.planets[i].orbit = Append(s.planets[i].orbit, <<x, y>>)]

\* Advance with the position advanced by the velocity of before the update
\* (explicit Euler).
Advance_OldVelocity(s, i, vx, vy) ==
    Move(s, i, vx, vy,
         s.planets[i].x + FMul(s.planets[i].velocity[1], TIMESTEP),
         s.planets[i].y + FMul(s.planets[i].velocity[2], TIMESTEP))

\* Lines 101-106 of update_position: the velocity, then the position.
Advance(s, i, vx, vy) ==
    Move(s, i, vx, vy,
         s.planets[i].x + FMul(vx, TIMESTEP),
         s.planets[i].y + FMul(vy, TIMESTEP))

\* Lines 97-102 of update_position, the force loop done: ZeroDivisionError
\* for a zero mass.
Integrate(s, i) ==
    IF s.raised \/ s.planets[i].mass = 0
    THEN [s EXCEPT !.raised = TRUE]
    ELSE Advance(s, i,
                 s.planets[i].velocity[1]
                   + FMul(FDiv(s.total_fx, s.planets[i].mass), TIMESTEP),
                 s.planets[i].velocity[2]
                   + FMul(FDiv(s.total_fy, s.planets[i].mass), TIMESTEP))

\* ps[i].update_position(ps): the objects after the call, whether it raised
\* (out of attraction, or dividing by a zero mass at line 97), the totals of
\* the force loop and the number of attraction calls.
update_position(ps, i) == Integrate(SumForces(ps, i, 1, 0, 0, 0), i)

\* ------------------------------------------------------------------------
\* State
\* ------------------------------------------------------------------------

VARIABLES
    planets,    \* the list of Planet objects, in list order
    pc,         \* where main() is: "setup", "while", "for", "exit", "crashed"
    run,        \* main()'s run flag
    idx,        \* the position of `for planet in planets` (line 155)
    ticks,      \* the number of completed passes of the for loop
    tickStart,  \* the objects as they were when the current pass began
    total,      \* total_fx, total_fy of the latest update_position call
    calls       \* the number of attraction calls made so far

vars == <<planets, pc, run, idx, ticks, tickStart, total, calls>>

Init ==
    /\ planets = <<>>
    /\ pc = "setup"
    /\ run = TRUE
    /\ idx = 0
    /\ ticks = 0
    /\ tickStart = <<>>
    /\ total = <<0, 0>>
    /\ calls = 0

\* ------------------------------------------------------------------------
\* main(): construction (lines 117-145)
\* ------------------------------------------------------------------------

\* Planet(x, y, radius, color, mass), appended to the list.
Construct(x, y, mass) ==
    /\ pc = "setup"
    /\ Len(planets) < MaxBodies
    /\ planets' = Append(planets, Planet(x, y, mass))
    /\ UNCHANGED <<pc, run, idx, ticks, tickStart, total, calls>>

\* planet.sun = True (line 118): main() flags one body, and so does the
\* model, whichever body it is.
SetSun(i) ==
    /\ pc = "setup"
    /\ \A k \in 1..Len(planets) : ~planets[k].sun
    /\ planets' = [planets EXCEPT ![i].sun = TRUE]
    /\ UNCHANGED <<pc, run, idx, ticks, tickStart, total, calls>>

\* planet.velocity[1] = v (lines 121-142).  main() does it for eight bodies;
\* the model does it for at most one, whichever it is.
SetVelocity(i, v) ==
    /\ pc = "setup"
    /\ \A k \in 1..Len(planets) : planets[k].velocity = <<0, 0>>
    /\ planets' = [planets EXCEPT ![i].velocity[2] = v]
    /\ UNCHANGED <<pc, run, idx, ticks, tickStart, total, calls>>

\* The list is complete and the loop is entered (lines 145-147).
Start ==
    /\ pc = "setup"
    /\ Len(planets) >= 1
    /\ pc' = "while"
    /\ UNCHANGED <<planets, run, idx, ticks, tickStart, total, calls>>

\* ------------------------------------------------------------------------
\* main(): the loop (lines 147-161)
\* ------------------------------------------------------------------------

\* `while run` holds; the events are polled (quit: a QUIT event arrived) and
\* the for loop begins.
BeginFrame(quit) ==
    /\ pc = "while"
    /\ run
    /\ ticks < MaxTicks
    /\ run' = ~quit
    /\ pc' = "for"
    /\ idx' = 1
    /\ tickStart' = planets
    /\ UNCHANGED <<planets, ticks, total, calls>>

\* planet.update_position(planets) for the planet at idx (line 156); an
\* exception leaves main().
Updated(r) ==
    /\ planets' = r.planets
    /\ total' = <<r.total_fx, r.total_fy>>
    /\ calls' = calls + r.calls
    /\ IF r.raised
       THEN /\ pc' = "crashed"
            /\ UNCHANGED <<idx, ticks>>
       ELSE IF idx = Len(planets)
       THEN /\ pc' = "while"
            /\ idx' = 0
            /\ ticks' = ticks + 1
       ELSE /\ pc' = "for"
            /\ idx' = idx + 1
            /\ UNCHANGED ticks

UpdatePosition ==
    /\ pc = "for"
    /\ Updated(update_position(planets, idx))
    /\ UNCHANGED <<run, tickStart>>

\* `while run` fails: pygame.quit() (line 161).
Exit ==
    /\ pc = "while"
    /\ ~run
    /\ pc' = "exit"
    /\ UNCHANGED <<planets, run, idx, ticks, tickStart, total, calls>>

Setup ==
    \/ \E p \in Positions, m \in Masses : Construct(p[1], p[2], m)
    \/ \E i \in 1..Len(planets) : SetSun(i)
    \/ \E i \in 1..Len(planets), v \in Velocities : SetVelocity(i, v)

Next ==
    \/ Setup
    \/ Start
    \/ \E quit \in BOOLEAN : BeginFrame(quit)
    \/ UpdatePosition
    \/ Exit

Spec == Init /\ [][Next]_vars

\* Every constructor call considered, whatever its mass.
SetupAny ==
    \/ \E p \in Positions, m \in AnyMasses : Construct(p[1], p[2], m)
    \/ \E i \in 1..Len(planets) : SetSun(i)
    \/ \E i \in 1..Len(planets), v \in Velocities : SetVelocity(i, v)

SpecCtor == Init /\ [][SetupAny]_vars

\* ------------------------------------------------------------------------
\* Properties
\* ------------------------------------------------------------------------

Bodies == 1..Len(planets)

SamePlace(a, b) == a.x = b.x /\ a.y = b.y

\* The body whose update_position call was the latest of the current pass
\* (of the pass just completed, between passes); 0 when there is none.
LastUpdated ==
    IF pc = "for" THEN idx - 1
    ELSE IF pc = "while" /\ ticks > 0 THEN Len(planets)
    ELSE 0

\* The totals of the force loop of ps[b].update_position(ps).
LoopTotals(s) == <<s.total_fx, s.total_fy>>
NetForce(ps, b) == LoopTotals(SumForces(ps, b, 1, 0, 0, 0))

\* The bodies flagged as the primary.
Primaries == {b \in Bodies : planets[b].sun}

\* C1: within one pass of the driver loop, the force summed for every body
\* is the force computed from the positions all bodies had when the pass
\* began.  (The code sums it from the positions of the moment, earlier
\* bodies of the list already advanced.)
C1_ForceFromTickStart ==
    LastUpdated > 0 => total = NetForce(tickStart, LastUpdated)

\* C7: no body with a non-positive mass exists: the constructor refuses one.
C7_MassPositive == \A b \in Bodies : planets[b].mass > 0

\* The forces of a pair of attraction calls are exact negatives, unless one
\* of the calls raised.
Opposite(r, q) ==
    (~r.raised /\ ~q.raised) => (r.fx = -q.fx /\ r.fy = -q.fy)

\* C4: for two bodies at distinct positions, A.attraction(B) is the exact
\* negative of B.attraction(A) in both components.
C4_Antisymmetric ==
    \A a \in Bodies : \A b \in Bodies :
        (a < b /\ ~SamePlace(planets[a], planets[b]))
            => Opposite(attraction(planets, a, b), attraction(planets, b, a))

\* The fields of every body that only update_position writes are the same
\* in the next state.
Unmoved ==
    /\ Len(planets') = Len(planets)
    /\ \A b \in Bodies :
          /\ planets'[b].x = planets[b].x
          /\ planets'[b].y = planets[b].y
          /\ planets'[b].velocity = planets[b].velocity
          /\ planets'[b].orbit = planets[b].orbit

\* Every orbit has as many entries as updates of its body were completed:
\* one per completed pass, and one more for the bodies the current pass has
\* passed.
OrbitLengths ==
    \A b \in Bodies :
        Len(planets[b].orbit) =
            ticks + (IF pc \in {"for", "crashed"} /\ b < idx THEN 1 ELSE 0)

\* A step changes an orbit only by appending to it the position its body
\* has after the step, in the step that updates that body.
OrbitsGrow ==
    /\ Len(planets') >= Len(planets)
    /\ \A b \in Bodies :
          \/ planets'[b].orbit = planets[b].orbit
          \/ /\ pc = "for" /\ b = idx
             /\ planets'[b].orbit =
                    Append(planets[b].orbit, <<planets'[b].x, planets'[b].y>>)

\* C2: after k completed passes every orbit has exactly k entries, the i-th
\* one the position the body had at the end of its update in pass i, and no
\* entry is ever removed, reordered or overwritten.
C2_Trajectory == [](OrbitLengths) /\ [][OrbitsGrow]_vars

\* Two passes completed by three bodies that all moved in the second.
C2_Witness ==
    /\ pc = "while" /\ ticks = 2 /\ Len(planets) = 3
    /\ \A b \in Bodies : planets[b].orbit[1] # planets[b].orbit[2]

\* A list of one body at rest, the loop entered.
SingleAtRest ==
    /\ pc # "setup"
    /\ Len(planets) = 1
    /\ planets[1].velocity = <<0, 0>>

\* The one body is where it was, with the velocity it had.
AtRest ==
    /\ Len(planets') = 1
    /\ planets'[1].x = planets[1].x
    /\ planets'[1].y = planets[1].y
    /\ planets'[1].velocity = planets[1].velocity

\* C3: a body does not attract itself: when the list holds one body, built
\* with velocity [0, 0], its velocity and position stay what they were and
\* attraction is never called.
C3_SingleBody ==
    /\ []((pc # "setup" /\ Len(planets) = 1) => calls = 0)
    /\ [][SingleAtRest => AtRest]_vars

\* The primary alone, after two passes.
C3_Witness ==
    /\ pc = "while" /\ ticks = 2 /\ Len(planets) = 1
    /\ planets[1].sun
    /\ Len(planets[1].orbit) = 2

\* What C5 says of the objects rs after ps[i].attraction(ps[j]).
DistanceStored(ps, rs, i, j) ==
    rs[i].distance_to_sun =
        IF ps[j].sun THEN Distance(ps[i], ps[j]) ELSE ps[i].distance_to_sun

\* C5: after self.attraction(other), self.distance_to_sun is the distance
\* between the two positions when other is the primary, and the value it
\* had before the call otherwise.  Stated of the calls update_position makes
\* for the body the for loop is at.
C5_DistanceToSun ==
    pc = "for" =>
        \A j \in Bodies \ {idx} :
            DistanceStored(planets, attraction(planets, idx, j).planets, idx, j)

\* A body with a stale distance is about to call attraction on the primary
\* and on a body that is not.
C5_Witness ==
    /\ pc = "for"
    /\ planets[idx].distance_to_sun # 0
    /\ \E j \in Bodies \ {idx} :
          /\ planets[j].sun
          /\ planets[idx].distance_to_sun # Distance(planets[idx], planets[j])
    /\ \E k \in Bodies \ {idx} : ~planets[k].sun

\* What C6 says of the objects rs after ps[i].attraction(ps[j]).
OnlyDistanceChanged(ps, rs, i) ==
    /\ Len(rs) = Len(ps)
    /\ \A b \in 1..Len(ps) :
          rs[b] = IF b = i
                  THEN [ps[b] EXCEPT !.distance_to_sun = rs[b].distance_to_sun]
                  ELSE ps[b]

\* C6: self.attraction(other) changes nothing but self.distance_to_sun.
\* Stated of the calls update_position makes for the body the for loop is
\* at.
C6_OnlyDistanceToSun ==
    pc = "for" =>
        \A j \in Bodies \ {idx} :
            OnlyDistanceChanged(planets, attraction(planets, idx, j).planets, idx)

\* A body that has moved is about to call attraction on the primary, which
\* has moved too, and the call changes its stored distance.
C6_Witness ==
    /\ pc = "for"
    /\ planets[idx].orbit # <<>>
    /\ planets[idx].velocity # <<0, 0>>
    /\ \E j \in Bodies \ {idx} :
          /\ planets[j].sun
          /\ planets[j].orbit # <<>>
          /\ planets[j].velocity # <<0, 0>>
          /\ attraction(planets, idx, j).planets # planets

\* C8: when the body being updated shares its position with another body of
\* the list, the update raises ZeroDivisionError out of attraction: main()
\* is left, and no velocity, position or orbit has changed.
C8_CoincidentRaises ==
    [][(pc = "for" /\ \E j \in Bodies \ {idx} :
                          SamePlace(planets[idx], planets[j]))
         => (pc' = "crashed" /\ Unmoved)]_vars

\* The update of a body that shares its position with another one has
\* raised, after an earlier body of the pass was updated.
C8_Witness ==
    /\ pc = "crashed"
    /\ idx > 1
    /\ \E j \in Bodies \ {idx} : SamePlace(planets[idx], planets[j])

\* The body at idx takes one semi-implicit Euler step from the force summed
\* at the positions of before the step.
EulerStep ==
    /\ total' = NetForce(planets, idx)
    /\ planets'[idx].velocity[1] =
           planets[idx].velocity[1]
             + FMul(FDiv(total'[1], planets[idx].mass), TIMESTEP)
    /\ planets'[idx].velocity[2] =
           planets[idx].velocity[2]
             + FMul(FDiv(total'[2], planets[idx].mass), TIMESTEP)
    /\ planets'[idx].x =
           planets[idx].x + FMul(planets'[idx].velocity[1], TIMESTEP)
    /\ planets'[idx].y =
           planets[idx].y + FMul(planets'[idx].velocity[2], TIMESTEP)
    /\ planets'[idx].orbit =
           Append(planets[idx].orbit, <<planets'[idx].x, planets'[idx].y>>)

\* C9: one update is a semi-implicit Euler step: the force is summed from
\* the positions of before the update, v_new = v_old + (F / mass) * dt,
\* pos_new = pos_old + v_new * dt, and pos_new is appended to the orbit.
C9_SemiImplicitEuler == [][(pc = "for" /\ pc' # "crashed") => EulerStep]_vars

\* A body that was moving has been updated, and its new velocity advances
\* it differently than the old one would have.
C9_Witness ==
    /\ LastUpdated > 0
    /\ tickStart[LastUpdated].velocity[1] # 0
    /\ tickStart[LastUpdated].velocity[2] # 0
    /\ FMul(tickStart[LastUpdated].velocity[1], TIMESTEP)
         # FMul(planets[LastUpdated].velocity[1], TIMESTEP)
    /\ FMul(tickStart[LastUpdated].velocity[2], TIMESTEP)
         # FMul(planets[LastUpdated].velocity[2], TIMESTEP)

\* What C10 says when p is the primary: the position of the primary that
\* body b read is the one of after the primary's update when the primary
\* precedes b in the list, and the one of before it otherwise.
DistancesOfTick(p) ==
    /\ planets[p].distance_to_sun = 0
    /\ \A b \in Bodies \ {p} :
          planets[b].distance_to_sun =
              Distance(tickStart[b],
                       IF p < b THEN planets[p] ELSE tickStart[p])

\* C10: with exactly one primary, after every completed pass the primary's
\* distance_to_sun is still 0 and every other body's is the distance from
\* its position of before its update to the primary's position of that
\* moment.
C10_DistanceAfterTick ==
    (pc = "while" /\ ticks > 0 /\ Cardinality(Primaries) = 1)
        => DistancesOfTick(CHOOSE p \in Primaries : TRUE)

\* The primary is the second of three bodies, two passes are completed, and
\* neither other body's distance_to_sun is the distance between the
\* positions of after the pass.
C10_Witness ==
    /\ pc = "while" /\ ticks = 2 /\ Len(planets) = 3
    /\ Primaries = {2}
    /\ \A b \in {1, 3} :
          planets[b].distance_to_sun # Distance(planets[b], planets[2])
==========================================================================
